---- MODULE Spec2Model ----
(***************************************************************************)
(* AegisFS: an encrypted filesystem gateway over a flat object store.      *)
(*                                                                         *)
(* The state is the bucket (store) and the gateway's inode tables          *)
(* (path_map, inode_map, next_ino).  Every FUSE callback of                *)
(* src/src/filesystem.rs is an operator from a gateway state and its       *)
(* arguments to a new gateway state and a reply; the actions apply them.   *)
(*                                                                         *)
(* A path is a sequence of one-character strings.  A stored body is a       *)
(* sequence of bytes: nonce || ciphertext || tag.                           *)
(***************************************************************************)
EXTENDS Integers, Sequences, FiniteSets, TLC

VARIABLES store, path_map, inode_map, next_ino, issued, series, pager, race, conc

vars == <<store, path_map, inode_map, next_ino, issued, series, pager, race, conc>>

-----------------------------------------------------------------------------
(* Bounds of the model *)

\* next_ino never grows past MaxIno: a callback that would issue more is not taken
MaxIno == 4
\* no write makes a plaintext longer than MaxLen bytes
MaxLen == 3
\* the bucket never holds more than MaxObjects objects
MaxObjects == 2
MaxCalls == 1

-----------------------------------------------------------------------------
(* Program constants *)

ROOT_INO == 1
BLOCK_SIZE == 4096
NONCE_LEN == 12
ByteMod == 256

-----------------------------------------------------------------------------
(* Strings as sequences of characters *)

Slash == "/"
NonUtf8Char == "\\xFF"
DotDir == <<".", "d", "i", "r">>

\* byte order of the characters the model uses (ASCII)
CharRank(c) ==
    CASE c = "." -> 46
      [] c = "/" -> 47
      [] c = "a" -> 97
      [] c = "b" -> 98
      [] c = "c" -> 99
      [] c = "d" -> 100
      [] c = "i" -> 105
      [] c = "p" -> 112
      [] c = "r" -> 114
      [] OTHER -> 255

Min(x, y) == IF x <= y THEN x ELSE y
Max(x, y) == IF x >= y THEN x ELSE y

\* str::starts_with
StartsWith(s, p) ==
    /\ Len(p) <= Len(s)
    /\ SubSeq(s, 1, Len(p)) = p

\* s[n..]
DropFirst(s, n) == SubSeq(s, n + 1, Len(s))

\* str::strip_prefix: None is modelled by the record [some |-> FALSE]
StripPrefix(s, p) ==
    IF StartsWith(s, p) THEN [some |-> TRUE, val |-> DropFirst(s, Len(p))]
    ELSE [some |-> FALSE]

\* str::matches('/').count()
CountSlash(s) == Cardinality({i \in 1..Len(s) : s[i] = Slash})

\* str::contains('/')
ContainsSlash(s) == \E i \in 1..Len(s) : s[i] = Slash

\* str::trim_start_matches('/')
RECURSIVE TrimStartSlash(_)
TrimStartSlash(s) ==
    IF Len(s) > 0 /\ s[1] = Slash THEN TrimStartSlash(Tail(s)) ELSE s

\* path.rsplitn(2, '/').nth(1): the text before the last '/', None without a '/'
RsplitParent(s) ==
    IF ContainsSlash(s)
    THEN LET i == CHOOSE k \in 1..Len(s) :
                     /\ s[k] = Slash
                     /\ \A j \in (k + 1)..Len(s) : s[j] # Slash
         IN  [some |-> TRUE, val |-> SubSeq(s, 1, i - 1)]
    ELSE [some |-> FALSE]

\* format!("{}/{}", a, b)
JoinSlash(a, b) == a \o <<Slash>> \o b

\* OsStr::to_str: None when the name is not valid UTF-8
ToStr(name) ==
    IF \E i \in 1..Len(name) : name[i] = NonUtf8Char THEN [some |-> FALSE]
    ELSE [some |-> TRUE, val |-> name]

\* byte-wise comparison of two keys (the order of an object listing)
RECURSIVE KeyLess(_, _)
KeyLess(a, b) ==
    IF Len(b) = 0 THEN FALSE
    ELSE IF Len(a) = 0 THEN TRUE
    ELSE IF CharRank(a[1]) # CharRank(b[1]) THEN CharRank(a[1]) < CharRank(b[1])
    ELSE KeyLess(Tail(a), Tail(b))

RECURSIVE SortKeys(_)
SortKeys(S) ==
    IF S = {} THEN <<>>
    ELSE LET m == CHOOSE x \in S : \A y \in S \ {x} : KeyLess(x, y)
         IN  <<m>> \o SortKeys(S \ {m})

\* finite maps
MapPut(f, k, v) == [x \in (DOMAIN f) \cup {k} |-> IF x = k THEN v ELSE f[x]]
MapRemove(f, k) == [x \in (DOMAIN f) \ {k} |-> f[x]]
EmptyMap == [x \in {} |-> 0]

RECURSIVE SumSeq(_)
SumSeq(s) == IF Len(s) = 0 THEN 0 ELSE s[1] + SumSeq(Tail(s))

-----------------------------------------------------------------------------
(* Cryptographic envelope: src/src/crypto.rs *)

\* the 32-byte key loaded at mount time, held as one number
MountKey == 7
\* length of the authentication tag the AEAD appends
TAG_LEN == 16

\* every byte of the nonce is drawn; the model draws nonces of one repeated byte
NonceOf(b) == [i \in 1..NONCE_LEN |-> b]
Nonces == {NonceOf(0), NonceOf(1)}

\* the AEAD's key stream: position i under (key, nonce)
Keystream(key, nonce, i) == (key + SumSeq(nonce) + i) % ByteMod

\* the AEAD's tag over (key, nonce, ciphertext)
AeadTag(key, nonce, ct) ==
    LET h == key + 3 * SumSeq(nonce) + 5 * SumSeq(ct) + Len(ct)
    IN  [i \in 1..TAG_LEN |-> (h + i) % ByteMod]

\* cipher.encrypt(nonce, plaintext): ciphertext with the tag appended
AeadEncrypt(key, nonce, plaintext) ==
    LET ct == [i \in 1..Len(plaintext) |->
                  (plaintext[i] + Keystream(key, nonce, i)) % ByteMod]
    IN  ct \o AeadTag(key, nonce, ct)

\* cipher.decrypt(nonce, data): Err on a short input or a tag mismatch
AeadDecrypt(key, nonce, data) ==
    IF Len(data) < TAG_LEN THEN [ok |-> FALSE]
    ELSE LET ct  == SubSeq(data, 1, Len(data) - TAG_LEN)
             tag == SubSeq(data, Len(data) - TAG_LEN + 1, Len(data))
         IN  IF tag # AeadTag(key, nonce, ct) THEN [ok |-> FALSE]
             ELSE [ok |-> TRUE,
                   val |-> [i \in 1..Len(ct) |->
                               (ct[i] + ByteMod - Keystream(key, nonce, i)) % ByteMod]]

\* encrypt returning the ciphertext without the nonce in front
encrypt_NoNonce(plaintext, nonce) == AeadEncrypt(MountKey, nonce, plaintext)

\* Encryptor::encrypt, with the nonce the RNG drew
encrypt(plaintext, nonce) == nonce \o AeadEncrypt(MountKey, nonce, plaintext)

\* Encryptor::decrypt
decrypt(ciphertext) ==
    IF Len(ciphertext) < NONCE_LEN THEN [ok |-> FALSE]
    ELSE AeadDecrypt(MountKey, SubSeq(ciphertext, 1, NONCE_LEN),
                     DropFirst(ciphertext, NONCE_LEN))

-----------------------------------------------------------------------------
(* Object store adapter: src/src/s3_client.rs.  A bucket is a function from *)
(* keys to bodies; `fail` says that the request met a transport or service *)
(* error.                                                                  *)

\* the configured key prefix (self.prefix)
SelfPrefix == <<>>

object_key(path) == SelfPrefix \o TrimStartSlash(path)

S3Get(bucket, path, fail) ==
    LET key == object_key(path)
    IN  IF fail THEN [ok |-> FALSE]
        ELSE IF key \in DOMAIN bucket THEN [ok |-> TRUE, some |-> TRUE, val |-> bucket[key]]
        ELSE [ok |-> TRUE, some |-> FALSE]

S3Put(bucket, path, data, fail) ==
    IF fail THEN [ok |-> FALSE, bucket |-> bucket]
    ELSE [ok |-> TRUE, bucket |-> MapPut(bucket, object_key(path), data)]

S3Delete(bucket, path, fail) ==
    IF fail THEN [ok |-> FALSE, bucket |-> bucket]
    ELSE [ok |-> TRUE, bucket |-> MapRemove(bucket, object_key(path))]

\* the keys of the bucket that begin with key_prefix, in the listing's byte order
ListObjectsV2(bucket, key_prefix) ==
    SortKeys({k \in DOMAIN bucket : StartsWith(k, key_prefix)})

S3List(bucket, prefix, fail) ==
    LET key_prefix == object_key(prefix)
        keys == ListObjectsV2(bucket, key_prefix)
    IN  IF fail THEN [ok |-> FALSE]
        ELSE [ok |-> TRUE,
              val |-> [i \in 1..Len(keys) |->
                          IF StartsWith(keys[i], SelfPrefix)
                          THEN DropFirst(keys[i], Len(SelfPrefix))
                          ELSE keys[i]]]

\* exists answering true for a key the bucket does not hold
S3Exists_AlwaysFound(bucket, path, fail) ==
    IF fail THEN [ok |-> FALSE]
    ELSE [ok |-> TRUE, val |-> TRUE]

S3Exists(bucket, path, fail) ==
    IF fail THEN [ok |-> FALSE]
    ELSE [ok |-> TRUE, val |-> object_key(path) \in DOMAIN bucket]

-----------------------------------------------------------------------------
(* Gateway state and the inode service: src/src/filesystem.rs               *)

\* a gateway state: the bucket, the three fields behind the mutexes, and the
\* history of the inode numbers get_or_create_ino has issued, in order
FsState(s, pm, im, n, iss) ==
    [store |-> s, path_map |-> pm, inode_map |-> im, next_ino |-> n, issued |-> iss]

\* AegisFS::new
NewFs(bucket) ==
    FsState(bucket, [p \in {<<>>} |-> ROOT_INO], [i \in {ROOT_INO} |-> <<>>], 2, <<>>)

\* get_or_create_ino issuing the smallest number no live inode uses
get_or_create_ino_Reuse(fs, path) ==
    IF path \in DOMAIN fs.path_map
    THEN [fs |-> fs, ino |-> fs.path_map[path]]
    ELSE LET ino == CHOOSE n \in 2..fs.next_ino :
                        /\ n \notin DOMAIN fs.inode_map
                        /\ \A m \in 2..(n - 1) : m \in DOMAIN fs.inode_map
         IN  [fs  |-> [fs EXCEPT !.next_ino = fs.next_ino + 1,
                                 !.path_map = MapPut(fs.path_map, path, ino),
                                 !.inode_map = MapPut(fs.inode_map, ino, path),
                                 !.issued = Append(fs.issued, ino)],
              ino |-> ino]

get_or_create_ino(fs, path) ==
    IF path \in DOMAIN fs.path_map
    THEN [fs |-> fs, ino |-> fs.path_map[path]]
    ELSE LET ino == fs.next_ino
         IN  [fs  |-> [fs EXCEPT !.next_ino = ino + 1,
                                 !.path_map = MapPut(fs.path_map, path, ino),
                                 !.inode_map = MapPut(fs.inode_map, ino, path),
                                 !.issued = Append(fs.issued, ino)],
              ino |-> ino]

get_path(fs, ino) ==
    IF ino = ROOT_INO THEN [some |-> TRUE, val |-> <<>>]
    ELSE IF ino \in DOMAIN fs.inode_map THEN [some |-> TRUE, val |-> fs.inode_map[ino]]
    ELSE [some |-> FALSE]

\* forget with the inode_map entry left behind
forget_PathOnly(fs, path) ==
    IF path \in DOMAIN fs.path_map
    THEN [fs EXCEPT !.path_map = MapRemove(fs.path_map, path)]
    ELSE fs

\* the "Remove from maps" step of unlink and rmdir
forget(fs, path) ==
    IF path \in DOMAIN fs.path_map
    THEN [fs EXCEPT !.path_map = MapRemove(fs.path_map, path),
                    !.inode_map = MapRemove(fs.inode_map, fs.path_map[path])]
    ELSE fs

read_file(fs, path, fail) ==
    LET g == S3Get(fs.store, path, fail)
    IN  IF ~g.ok THEN [ok |-> FALSE]
        ELSE IF ~g.some THEN [ok |-> TRUE, some |-> FALSE]
        ELSE LET d == decrypt(g.val)
             IN  IF ~d.ok THEN [ok |-> FALSE]
                 ELSE [ok |-> TRUE, some |-> TRUE, val |-> d.val]

\* the new bucket is kept in the result; on a failed put it is the old one
write_file(fs, path, data, nonce, fail) ==
    LET p == S3Put(fs.store, path, encrypt(data, nonce), fail)
    IN  [ok |-> p.ok, fs |-> [fs EXCEPT !.store = p.bucket]]

delete_file(fs, path, fail) ==
    LET d == S3Delete(fs.store, path, fail)
    IN  [ok |-> d.ok, fs |-> [fs EXCEPT !.store = d.bucket]]

\* the entries of a listing that are direct children of path (lines 113-124)
RECURSIVE DirectChildren(_, _, _)
DirectChildren(entries, prefix, path_depth) ==
    IF Len(entries) = 0 THEN <<>>
    ELSE LET entry == entries[1]
             entry_depth == CountSlash(entry) + 1
             filename == StripPrefix(entry, prefix)
             rest == DirectChildren(Tail(entries), prefix, path_depth)
         IN  IF entry_depth = path_depth + 1 /\ filename.some
             THEN <<filename.val>> \o rest
             ELSE rest

list_directory(fs, path, fail) ==
    LET prefix == IF Len(path) = 0 THEN <<>> ELSE path \o <<Slash>>
        l == S3List(fs.store, prefix, fail)
        path_depth == IF Len(path) = 0 THEN 0 ELSE CountSlash(path) + 1
    IN  IF ~l.ok THEN [ok |-> FALSE]
        ELSE [ok |-> TRUE, val |-> DirectChildren(l.val, prefix, path_depth)]

-----------------------------------------------------------------------------
(* Attribute records (the time stamps and the mounter's ids are left out)   *)

Attr(ino, size, blocks, kind, perm, nlink) ==
    [ino |-> ino, size |-> size, blocks |-> blocks, kind |-> kind,
     perm |-> perm, nlink |-> nlink]

\* 0o755 and 0o644 are written as the strings "755" and "644"
get_root_attr == Attr(1, 4096, 1, "Directory", "755", 2)

get_dir_attr_for_path(ino) == Attr(ino, 4096, 1, "Directory", "755", 2)

\* get_file_attr_for_path with the block count rounded down
get_file_attr_for_path_FloorBlocks(fs, path, ino, fail) ==
    LET r == read_file(fs, path, fail)
        size == IF r.ok /\ r.some THEN Len(r.val) ELSE 0
    IN  Attr(ino, size, size \div BLOCK_SIZE, "RegularFile", "644", 1)

get_file_attr_for_path(fs, path, ino, fail) ==
    LET r == read_file(fs, path, fail)
        size == IF r.ok /\ r.some THEN Len(r.val) ELSE 0
    IN  Attr(ino, size, (size + BLOCK_SIZE - 1) \div BLOCK_SIZE, "RegularFile", "644", 1)

-----------------------------------------------------------------------------
(* Replies.  A callback's result is the gateway state it leaves, its reply *)
(* and the number of store requests it issued.  flt is the set of ordinals *)
(* of the store requests of this callback that fail.                       *)

ReplyError(errno)  == [kind |-> "error", errno |-> errno]
ReplyEntry(attr)   == [kind |-> "entry", attr |-> attr]
ReplyAttr(attr)    == [kind |-> "attr", attr |-> attr]
ReplyData(data)    == [kind |-> "data", data |-> data]
ReplyWritten(n)    == [kind |-> "written", size |-> n]
ReplyOk            == [kind |-> "ok"]
\* ReplyDirectory::ok with the entries the buffer holds
ReplyDir(buf)      == [kind |-> "dir", entries |-> buf]
\* readdir returned without calling reply.ok() or reply.error(): the buffer
\* signalled full
ReplyDropped(buf)  == [kind |-> "dropped", entries |-> buf]

Ret(fs, reply, calls) == [fs |-> fs, reply |-> reply, calls |-> calls]

\* join(parent_path, name_str) as every callback builds the child path
ChildPath(parent_path, name_str) ==
    IF Len(parent_path) = 0 THEN name_str ELSE JoinSlash(parent_path, name_str)

\* the parent's path as lookup, unlink, mkdir and rmdir find it
ParentPath(fs, parent) ==
    IF parent = ROOT_INO THEN [some |-> TRUE, val |-> <<>>] ELSE get_path(fs, parent)

-----------------------------------------------------------------------------
(* The callbacks *)

\* lookup that assigns the inode before it asks the store whether the path
\* exists
lookup_AssignFirst(fs, parent, name, flt) ==
    LET name_str == ToStr(name)
        parent_path == ParentPath(fs, parent)
    IN  IF ~name_str.some \/ ~parent_path.some THEN Ret(fs, ReplyError("ENOENT"), 0)
        ELSE LET path == ChildPath(parent_path.val, name_str.val)
                 g == get_or_create_ino(fs, path)
                 ex == S3Exists(fs.store, path, 1 \in flt)
             IN  IF ~ex.ok THEN Ret(g.fs, ReplyError("EIO"), 1)
                 ELSE IF ex.val
                 THEN Ret(g.fs, ReplyEntry(get_file_attr_for_path(g.fs, path, g.ino, 2 \in flt)), 2)
                 ELSE Ret(g.fs, ReplyError("ENOENT"), 2)

lookup(fs, parent, name, flt) ==
    LET name_str == ToStr(name)
    IN  IF ~name_str.some THEN Ret(fs, ReplyError("ENOENT"), 0)
        ELSE IF parent = 1 /\ name_str.val \in {<<".">>, <<".", ".">>}
        THEN Ret(fs, ReplyEntry(get_root_attr), 0)
        ELSE LET parent_path == ParentPath(fs, parent)
             IN  IF ~parent_path.some THEN Ret(fs, ReplyError("ENOENT"), 0)
                 ELSE LET path == ChildPath(parent_path.val, name_str.val)
                          ex == S3Exists(fs.store, path, 1 \in flt)
                      IN  IF ~ex.ok THEN Ret(fs, ReplyError("EIO"), 1)
                          ELSE IF ex.val
                          THEN LET g == get_or_create_ino(fs, path)
                                   attr == get_file_attr_for_path(g.fs, path, g.ino, 2 \in flt)
                               IN  Ret(g.fs, ReplyEntry(attr), 2)
                          ELSE LET l == S3List(fs.store, path \o <<Slash>>, 2 \in flt)
                               IN  IF l.ok /\ Len(l.val) > 0
                                   THEN LET g == get_or_create_ino(fs, path)
                                        IN  Ret(g.fs, ReplyEntry(get_dir_attr_for_path(g.ino)), 2)
                                   ELSE Ret(fs, ReplyError("ENOENT"), 2)

getattr(fs, ino, flt) ==
    IF ino = ROOT_INO THEN Ret(fs, ReplyAttr(get_root_attr), 0)
    ELSE LET path == get_path(fs, ino)
         IN  IF ~path.some THEN Ret(fs, ReplyError("ENOENT"), 0)
             ELSE LET l == S3List(fs.store, path.val \o <<Slash>>, 1 \in flt)
                  IN  IF l.ok /\ Len(l.val) > 0
                      THEN Ret(fs, ReplyAttr(get_dir_attr_for_path(ino)), 1)
                      ELSE LET r == read_file(fs, path.val, 2 \in flt)
                               attr == get_file_attr_for_path(fs, path.val, ino, 3 \in flt)
                           IN  IF r.ok /\ r.some
                               THEN Ret(fs, ReplyAttr([attr EXCEPT !.size = Len(r.val)]), 3)
                               ELSE Ret(fs, ReplyAttr(attr), 3)

\* ReplyDirectory::add: TRUE when the buffer is full, and then the entry is
\* not added.  cap is the number of entries the kernel's buffer holds.
DirEntry(ino, offset, kind, name) ==
    [ino |-> ino, offset |-> offset, kind |-> kind, name |-> name]
BufFull(buf, cap) == Len(buf) >= cap
BufAdd(buf, cap, e) == IF BufFull(buf, cap) THEN buf ELSE Append(buf, e)

\* the loop over the children of a subdirectory (lines 284-299)
RECURSIVE ReaddirChildren(_, _, _, _, _, _, _)
ReaddirChildren(fs, path, entries, current_offset, offset, buf, cap) ==
    IF Len(entries) = 0 THEN Ret(fs, ReplyDir(buf), 1)
    ELSE LET entry == entries[1]
         IN  IF current_offset > offset
             THEN LET entry_path == IF Len(path) = 0 THEN entry ELSE JoinSlash(path, entry)
                      g == get_or_create_ino(fs, entry_path)
                      e == DirEntry(g.ino, current_offset, "RegularFile", entry)
                  IN  IF BufFull(buf, cap) THEN Ret(g.fs, ReplyDropped(buf), 1)
                      ELSE ReaddirChildren(g.fs, path, Tail(entries), current_offset + 1,
                                           offset, BufAdd(buf, cap, e), cap)
             ELSE ReaddirChildren(fs, path, Tail(entries), current_offset + 1,
                                  offset, buf, cap)

\* the loop over the children of the root (lines 324-334)
RECURSIVE ReaddirRootChildren(_, _, _, _, _, _)
ReaddirRootChildren(fs, entries, current_offset, offset, buf, cap) ==
    IF Len(entries) = 0 THEN Ret(fs, ReplyDir(buf), 1)
    ELSE LET entry == entries[1]
         IN  IF current_offset > offset
             THEN LET ino == current_offset
                      e == DirEntry(ino, current_offset, "RegularFile", entry)
                  IN  IF BufFull(buf, cap) THEN Ret(fs, ReplyDropped(buf), 1)
                      ELSE ReaddirRootChildren(fs, Tail(entries), current_offset + 1,
                                               offset, BufAdd(buf, cap, e), cap)
             ELSE ReaddirRootChildren(fs, Tail(entries), current_offset + 1,
                                      offset, buf, cap)

\* the inode readdir gives the ".." entry of a subdirectory (lines 266-275)
DotDotIno(fs, path) ==
    IF ContainsSlash(path)
    THEN LET parent_path == RsplitParent(path)
         IN  IF parent_path.some
             THEN IF parent_path.val \in DOMAIN fs.path_map
                  THEN fs.path_map[parent_path.val] ELSE ROOT_INO
             ELSE ROOT_INO
    ELSE ROOT_INO

readdir(fs, ino, offset, cap, flt) ==
    LET path == get_path(fs, ino)
        dot == DirEntry(ino, 0, "Directory", <<".">>)
        b0 == <<>>
        full1 == offset = 0 /\ BufFull(b0, cap)
        b1 == IF offset = 0 THEN BufAdd(b0, cap, dot) ELSE b0
        dotdot == DirEntry(IF ino # ROOT_INO THEN DotDotIno(fs, path.val) ELSE 1,
                           1, "Directory", <<".", ".">>)
        full2 == offset <= 1 /\ BufFull(b1, cap)
        b2 == IF offset <= 1 THEN BufAdd(b1, cap, dotdot) ELSE b1
        l == list_directory(fs, IF ino # ROOT_INO THEN path.val ELSE <<>>, 1 \in flt)
    IN  IF ino # ROOT_INO /\ ~path.some THEN Ret(fs, ReplyError("ENOENT"), 0)
        ELSE IF full1 THEN Ret(fs, ReplyDropped(b0), 0)
        ELSE IF full2 THEN Ret(fs, ReplyDropped(b1), 0)
        ELSE IF ~l.ok THEN Ret(fs, ReplyError("EIO"), 1)
        ELSE IF ino # ROOT_INO
        THEN ReaddirChildren(fs, path.val, l.val, 2, offset, b2, cap)
        ELSE ReaddirRootChildren(fs, l.val, 2, offset, b2, cap)

\* the slice with the first byte taken at index offset - 1
ReadSlice_OffByOne(data, offset, size) ==
    IF offset >= Len(data) THEN <<>>
    ELSE SubSeq(data, offset + 1, Min(offset + size + 1, Len(data)))

\* the bytes read replies from the decrypted body (lines 372-379)
ReadSlice(data, offset, size) ==
    IF offset >= Len(data) THEN <<>>
    ELSE LET end == Min(offset + size, Len(data))
         IN  SubSeq(data, offset + 1, end)

read(fs, ino, offset, size, flt) ==
    IF ino = ROOT_INO THEN Ret(fs, ReplyError("EISDIR"), 0)
    ELSE LET path == get_path(fs, ino)
         IN  IF ~path.some THEN Ret(fs, ReplyError("ENOENT"), 0)
             ELSE LET r == read_file(fs, path.val, 1 \in flt)
                  IN  IF ~r.ok THEN Ret(fs, ReplyError("EIO"), 1)
                      ELSE IF ~r.some THEN Ret(fs, ReplyError("ENOENT"), 1)
                      ELSE Ret(fs, ReplyData(ReadSlice(r.val, offset, size)), 1)

\* the patch with the hole filled by the byte 255 instead of 0
PatchData_BadFill(file_data, offset, data) ==
    LET n == IF offset + Len(data) > Len(file_data)
             THEN offset + Len(data) ELSE Len(file_data)
    IN  [i \in 1..n |->
            IF i > offset /\ i <= offset + Len(data) THEN data[i - offset]
            ELSE IF i <= Len(file_data) THEN file_data[i]
            ELSE 255]

\* the patch that copies the payload's first byte over all of its range
PatchData_FirstByte(file_data, offset, data) ==
    LET n == IF offset + Len(data) > Len(file_data)
             THEN offset + Len(data) ELSE Len(file_data)
    IN  [i \in 1..n |->
            IF i > offset /\ i <= offset + Len(data) THEN data[1]
            ELSE IF i <= Len(file_data) THEN file_data[i]
            ELSE 0]

\* file_data.resize(..., 0) and copy_from_slice (lines 431-435)
PatchData(file_data, offset, data) ==
    LET n == IF offset + Len(data) > Len(file_data)
             THEN offset + Len(data) ELSE Len(file_data)
    IN  [i \in 1..n |->
            IF i > offset /\ i <= offset + Len(data) THEN data[i - offset]
            ELSE IF i <= Len(file_data) THEN file_data[i]
            ELSE 0]

\* write up to the end of its get (lines 405-429): the path of the inode and
\* the decrypted body, empty when the object is missing
write_get(fs, ino, fail) ==
    IF ino = ROOT_INO THEN [ok |-> FALSE, reply |-> ReplyError("EISDIR")]
    ELSE LET path == get_path(fs, ino)
         IN  IF ~path.some THEN [ok |-> FALSE, reply |-> ReplyError("ENOENT")]
             ELSE LET r == read_file(fs, path.val, fail)
                  IN  IF ~r.ok THEN [ok |-> FALSE, reply |-> ReplyError("EIO")]
                      ELSE [ok |-> TRUE, path |-> path.val,
                            file_data |-> IF r.some THEN r.val ELSE <<>>]

\* the put of a write that reads the object again and patches what it finds
write_put_Reread(fs, path, file_data, offset, data, nonce, fail) ==
    LET r == read_file(fs, path, FALSE)
        w == write_file(fs, path, PatchData(IF r.ok /\ r.some THEN r.val ELSE <<>>,
                                            offset, data), nonce, fail)
    IN  IF w.ok THEN Ret(w.fs, ReplyWritten(Len(data)), 2)
        ELSE Ret(fs, ReplyError("EIO"), 2)

\* the rest of write (lines 431-445): the buffer it got is patched and put
write_put(fs, path, file_data, offset, data, nonce, fail) ==
    LET w == write_file(fs, path, PatchData(file_data, offset, data), nonce, fail)
    IN  IF w.ok THEN Ret(w.fs, ReplyWritten(Len(data)), 2)
        ELSE Ret(fs, ReplyError("EIO"), 2)

write(fs, ino, offset, data, nonce, flt) ==
    IF ino = ROOT_INO THEN Ret(fs, ReplyError("EISDIR"), 0)
    ELSE LET path == get_path(fs, ino)
         IN  IF ~path.some THEN Ret(fs, ReplyError("ENOENT"), 0)
             ELSE LET r == read_file(fs, path.val, 1 \in flt)
                  IN  IF ~r.ok THEN Ret(fs, ReplyError("EIO"), 1)
                      ELSE LET file_data == IF r.some THEN r.val ELSE <<>>
                               patched == PatchData(file_data, offset, data)
                               w == write_file(fs, path.val, patched, nonce, 2 \in flt)
                           IN  IF w.ok THEN Ret(w.fs, ReplyWritten(Len(data)), 2)
                               ELSE Ret(fs, ReplyError("EIO"), 2)

\* create that keeps the body of an object the bucket already holds
CreateAt_KeepExisting(fs, path, nonce, flt) ==
    LET w == IF object_key(path) \in DOMAIN fs.store
             THEN [ok |-> ~(1 \in flt), fs |-> fs]
             ELSE write_file(fs, path, <<>>, nonce, 1 \in flt)
    IN  IF w.ok
        THEN LET g == get_or_create_ino(w.fs, path)
                 attr == get_file_attr_for_path(g.fs, path, g.ino, 2 \in flt)
             IN  Ret(g.fs, ReplyEntry(attr), 2)
        ELSE Ret(fs, ReplyError("EIO"), 1)

\* create that assigns the inode before it puts the object
CreateAt_InoBeforePut(fs, path, nonce, flt) ==
    LET g == get_or_create_ino(fs, path)
        w == write_file(g.fs, path, <<>>, nonce, 1 \in flt)
    IN  IF w.ok
        THEN Ret(w.fs, ReplyEntry(get_file_attr_for_path(w.fs, path, g.ino, 2 \in flt)), 2)
        ELSE Ret(g.fs, ReplyError("EIO"), 1)

\* "Create empty file": the part both branches of create share
CreateAt(fs, path, nonce, flt) ==
    LET w == write_file(fs, path, <<>>, nonce, 1 \in flt)
    IN  IF w.ok
        THEN LET g == get_or_create_ino(w.fs, path)
                 attr == get_file_attr_for_path(g.fs, path, g.ino, 2 \in flt)
             IN  Ret(g.fs, ReplyEntry(attr), 2)
        ELSE Ret(fs, ReplyError("EIO"), 1)

create(fs, parent, name, nonce, flt) ==
    LET name_str == ToStr(name)
    IN  IF parent # ROOT_INO
        THEN LET parent_path == get_path(fs, parent)
             IN  IF ~parent_path.some THEN Ret(fs, ReplyError("ENOENT"), 0)
                 ELSE IF ~name_str.some THEN Ret(fs, ReplyError("EINVAL"), 0)
                 ELSE CreateAt(fs, ChildPath(parent_path.val, name_str.val), nonce, flt)
        ELSE IF ~name_str.some THEN Ret(fs, ReplyError("EINVAL"), 0)
        ELSE CreateAt(fs, name_str.val, nonce, flt)

\* unlink that leaves the inode tables as they are
unlink_NoForget(fs, parent, name, flt) ==
    LET parent_path == ParentPath(fs, parent)
        name_str == ToStr(name)
    IN  IF ~parent_path.some THEN Ret(fs, ReplyError("ENOENT"), 0)
        ELSE IF ~name_str.some THEN Ret(fs, ReplyError("EINVAL"), 0)
        ELSE LET path == ChildPath(parent_path.val, name_str.val)
                 d == delete_file(fs, path, 1 \in flt)
             IN  IF d.ok THEN Ret(d.fs, ReplyOk, 1)
                 ELSE Ret(fs, ReplyError("EIO"), 1)

unlink(fs, parent, name, flt) ==
    LET parent_path == ParentPath(fs, parent)
        name_str == ToStr(name)
    IN  IF ~parent_path.some THEN Ret(fs, ReplyError("ENOENT"), 0)
        ELSE IF ~name_str.some THEN Ret(fs, ReplyError("EINVAL"), 0)
        ELSE LET path == ChildPath(parent_path.val, name_str.val)
                 f == forget(fs, path)
                 d == delete_file(f, path, 1 \in flt)
             IN  IF d.ok THEN Ret(d.fs, ReplyOk, 1)
                 ELSE Ret(f, ReplyError("EIO"), 1)

\* mkdir that puts its marker object at the directory's own path
mkdir_MarkerAtPath(fs, parent, name, nonce, flt) ==
    LET parent_path == ParentPath(fs, parent)
        name_str == ToStr(name)
    IN  IF ~parent_path.some THEN Ret(fs, ReplyError("ENOENT"), 0)
        ELSE IF ~name_str.some THEN Ret(fs, ReplyError("EINVAL"), 0)
        ELSE LET path == ChildPath(parent_path.val, name_str.val)
                 w == write_file(fs, path, <<>>, nonce, 1 \in flt)
             IN  IF w.ok
                 THEN LET g == get_or_create_ino(w.fs, path)
                      IN  Ret(g.fs, ReplyEntry(get_dir_attr_for_path(g.ino)), 1)
                 ELSE Ret(fs, ReplyError("EIO"), 1)

mkdir(fs, parent, name, nonce, flt) ==
    LET parent_path == ParentPath(fs, parent)
        name_str == ToStr(name)
    IN  IF ~parent_path.some THEN Ret(fs, ReplyError("ENOENT"), 0)
        ELSE IF ~name_str.some THEN Ret(fs, ReplyError("EINVAL"), 0)
        ELSE LET path == ChildPath(parent_path.val, name_str.val)
                 marker_path == path \o <<Slash>> \o DotDir
                 w == write_file(fs, marker_path, <<>>, nonce, 1 \in flt)
             IN  IF w.ok
                 THEN LET g == get_or_create_ino(w.fs, path)
                      IN  Ret(g.fs, ReplyEntry(get_dir_attr_for_path(g.ino)), 1)
                 ELSE Ret(fs, ReplyError("EIO"), 1)

\* the loop stopping after the first listed entry
DeleteEntries_FirstOnly(bucket, entries, k, flt) ==
    IF Len(entries) = 0 THEN bucket
    ELSE S3Delete(bucket, entries[1], (k + 1) \in flt).bucket

\* the loop that deletes the listed entries (lines 665-669): the k-th delete
\* is store request k + 1 of the callback; a failed delete is logged and skipped
RECURSIVE DeleteEntries(_, _, _, _)
DeleteEntries(bucket, entries, k, flt) ==
    IF Len(entries) = 0 THEN bucket
    ELSE DeleteEntries(S3Delete(bucket, entries[1], (k + 1) \in flt).bucket,
                       Tail(entries), k + 1, flt)

rmdir(fs, parent, name, flt) ==
    LET parent_path == ParentPath(fs, parent)
        name_str == ToStr(name)
    IN  IF ~parent_path.some THEN Ret(fs, ReplyError("ENOENT"), 0)
        ELSE IF ~name_str.some THEN Ret(fs, ReplyError("EINVAL"), 0)
        ELSE LET path == ChildPath(parent_path.val, name_str.val)
                 dir_path == path \o <<Slash>>
                 l == S3List(fs.store, dir_path, 1 \in flt)
             IN  IF ~l.ok THEN Ret(fs, ReplyError("EIO"), 1)
                 ELSE LET n == Len(l.val)
                          b1 == DeleteEntries(fs.store, l.val, 1, flt)
                          marker == path \o <<Slash>> \o DotDir
                          b2 == S3Delete(b1, marker, (n + 2) \in flt).bucket
                      IN  Ret(forget([fs EXCEPT !.store = b2], path), ReplyOk, n + 2)

-----------------------------------------------------------------------------
(* Inputs the kernel and the environment can supply *)

NameA == <<"a">>
NameB == <<"b">>
NameC == <<"c">>
Names == {NameA, NameB}
NonUtf8Name == <<NonUtf8Char>>
\* inode numbers the kernel may hold: issued, forgotten or never issued
Inos == 1..MaxIno
Offsets == 0..MaxLen
Sizes == 0..(MaxLen + 1)
\* payloads of write: the bytes are not zero, so that a zero is a filled hole
Datas == {<<>>, <<1>>, <<2>>, <<1, 2>>}
\* how many entries the kernel's readdir buffer holds
BigCap == MaxObjects + 3
Caps == 1..BigCap
NonceA == NonceOf(0)
\* which store requests of one callback fail
FaultSets == SUBSET (1..3)
OneFault(n) == {{}} \cup {{i} : i \in 1..n}
NoFault == {{}}

-----------------------------------------------------------------------------
(* The state machine *)

FS == FsState(store, path_map, inode_map, next_ino, issued)

NoSeries == [active |-> FALSE]

\* no call of S3Storage::list is being followed step by step
NoPager == [status |-> "idle"]

\* the two callers of write that SpecRace follows step by step
Writers == {1, 2}
\* no write is in progress
NoRace == [w |-> [id \in Writers |-> [pc |-> "idle"]], events |-> <<>>]

\* the threads that SpecLocks runs callbacks on, and the three mutexes of
\* struct AegisFS with the order of their fields
Threads == {1, 2}
Mutexes == {"path_map", "inode_map", "next_ino"}
\* a thread that runs no callback
IdleThread(calls) ==
    [cb |-> "idle", script |-> <<>>, pc |-> 1, parent |-> ROOT_INO, path |-> <<>>,
     found |-> FALSE, ino |-> 0, held |-> <<>>, calls |-> calls]
\* no thread runs a callback and no mutex is held
NoConc == [th |-> [t \in Threads |-> IdleThread(0)],
           owner |-> [m \in Mutexes |-> 0]]

\* the state that only the step-by-step views of one operation change
aux == <<pager, race, conc>>

\* the state after AegisFS::new on a bucket
Mounted(bucket) ==
    /\ store = bucket
    /\ path_map = NewFs(bucket).path_map
    /\ inode_map = NewFs(bucket).inode_map
    /\ next_ino = NewFs(bucket).next_ino
    /\ issued = NewFs(bucket).issued
    /\ series = NoSeries
    /\ pager = NoPager
    /\ race = NoRace
    /\ conc = NoConc

\* the callback's result r becomes the gateway state; the model's bounds are guards
Commit(r) ==
    /\ r.fs.next_ino <= MaxIno
    /\ Cardinality(DOMAIN r.fs.store) <= MaxObjects
    /\ store' = r.fs.store
    /\ path_map' = r.fs.path_map
    /\ inode_map' = r.fs.inode_map
    /\ next_ino' = r.fs.next_ino
    /\ issued' = r.fs.issued
    /\ UNCHANGED aux

Lookup(parents, names, faults) ==
    \E parent \in parents, name \in names, flt \in faults :
        \E r \in {lookup(FS, parent, name, flt)} :
            Commit(r) /\ UNCHANGED series

Getattr(faults) ==
    \E ino \in Inos, flt \in faults :
        \E r \in {getattr(FS, ino, flt)} :
            Commit(r) /\ UNCHANGED series

Readdir(offsets, caps, faults) ==
    \E ino \in Inos, offset \in offsets, cap \in caps, flt \in faults :
        \E r \in {readdir(FS, ino, offset, cap, flt)} :
            Commit(r) /\ UNCHANGED series

Read(offsets, sizes, faults) ==
    \E ino \in Inos, offset \in offsets, size \in sizes, flt \in faults :
        \E r \in {read(FS, ino, offset, size, flt)} :
            Commit(r) /\ UNCHANGED series

Write(offsets, datas, nonces, faults) ==
    \E ino \in Inos, offset \in offsets, data \in datas, nonce \in nonces, flt \in faults :
        \E r \in {write(FS, ino, offset, data, nonce, flt)} :
            /\ offset + Len(data) <= MaxLen
            /\ Commit(r) /\ UNCHANGED series

Create(parents, names, nonces, faults) ==
    \E parent \in parents, name \in names, nonce \in nonces, flt \in faults :
        \E r \in {create(FS, parent, name, nonce, flt)} :
            Commit(r) /\ UNCHANGED series

Unlink(parents, names, faults) ==
    \E parent \in parents, name \in names, flt \in faults :
        \E r \in {unlink(FS, parent, name, flt)} :
            Commit(r) /\ UNCHANGED series

Mkdir(parents, names, nonces, faults) ==
    \E parent \in parents, name \in names, nonce \in nonces, flt \in faults :
        \E r \in {mkdir(FS, parent, name, nonce, flt)} :
            Commit(r) /\ UNCHANGED series

Rmdir(parents, names, faults) ==
    \E parent \in parents, name \in names, flt \in faults :
        \E r \in {rmdir(FS, parent, name, flt)} :
            Commit(r) /\ UNCHANGED series

-----------------------------------------------------------------------------
(* Spec: the namespace.  Every callback on a bucket that starts empty, two *)
(* names under every parent, files of at most one byte, one nonce.         *)

Init == Mounted(EmptyMap)

Next ==
    \/ Lookup(Inos, Names \cup {<<".">>, NonUtf8Name}, OneFault(1))
    \/ Getattr(NoFault)
    \/ Readdir({0, 3}, {3, BigCap}, OneFault(1))
    \/ Read({0}, {1}, NoFault)
    \/ Write({0}, {<<1>>}, {NonceA}, OneFault(2))
    \/ Create(Inos, Names \cup {NonUtf8Name}, {NonceA}, OneFault(1))
    \/ Unlink(Inos, Names \cup {NonUtf8Name}, OneFault(1))
    \/ Mkdir(Inos, Names \cup {NonUtf8Name}, {NonceA}, OneFault(1))
    \/ Rmdir(Inos, Names \cup {NonUtf8Name}, OneFault(MaxObjects + 2))

Spec == Init /\ [][Next]_vars

-----------------------------------------------------------------------------
(* SpecData: the data path.  One file, a, under the root; every offset,    *)
(* payload and nonce.                                                      *)

NextData ==
    \/ Create({ROOT_INO}, {NameA}, Nonces, NoFault)
    \/ Lookup({ROOT_INO}, {NameA}, NoFault)
    \/ Write(Offsets, Datas, Nonces, OneFault(2))
    \/ Read(Offsets, Sizes, OneFault(1))
    \/ Getattr(NoFault)
    \/ Unlink({ROOT_INO}, {NameA}, OneFault(1))

SpecData == Init /\ [][NextData]_vars

-----------------------------------------------------------------------------
(* SpecList: directory listing.  The bucket was filled from outside the    *)
(* filesystem and does not change; lookup and readdir run on it, and the   *)
(* kernel reads one directory in a series of readdir calls.                *)

Enc(plaintext) == encrypt(plaintext, NonceA)
\* an object put into the bucket from outside the filesystem, not encrypted
RawBody == <<104, 105>>
KeyABC == <<"a", "/", "b", "/", "c">>
\* a body the gateway wrote, with the last byte of its tag changed afterwards
TamperedBody == [Enc(<<1>>) EXCEPT ![Len(Enc(<<1>>))] = (@ + 1) % ByteMod]
ListBuckets ==
    { EmptyMap,
      [k \in {KeyABC} |-> RawBody],
      [k \in {NameA, NameB} |-> Enc(<<1>>)],
      [k \in {NameA \o <<Slash>> \o DotDir, JoinSlash(NameA, NameB)} |-> Enc(<<>>)],
      [k \in {NameB} |-> TamperedBody] }

InitList == \E bucket \in ListBuckets : Mounted(bucket)

\* a series never emits more than MaxEmit entries in the model
MaxEmit == MaxObjects + 4

KnownInos == {ROOT_INO} \cup DOMAIN inode_map

\* the kernel opens a directory and starts to read it at offset 0
SeriesStart ==
    \E ino \in KnownInos, cap \in Caps :
        /\ series' = [active |-> TRUE, ino |-> ino, cap |-> cap, offset |-> 0,
                      emitted |-> <<>>, status |-> "running"]
        /\ UNCHANGED <<store, path_map, inode_map, next_ino, issued>>
        /\ UNCHANGED aux

\* the next readdir of the series: its offset is the one attached to the last
\* entry the previous call returned; an empty reply ends the series
SeriesStep ==
    /\ series.active
    /\ series.status = "running"
    /\ Len(series.emitted) < MaxEmit
    /\ \E r \in {readdir(FS, series.ino, series.offset, series.cap, {})} :
        /\ Commit(r)
        /\ series' =
             IF r.reply.kind = "dir"
             THEN IF Len(r.reply.entries) = 0
                  THEN [series EXCEPT !.status = "done"]
                  ELSE [series EXCEPT
                          !.emitted = series.emitted \o
                              [i \in 1..Len(r.reply.entries) |-> r.reply.entries[i].name],
                          !.offset = r.reply.entries[Len(r.reply.entries)].offset]
             ELSE [series EXCEPT !.status = r.reply.kind]

NextList ==
    \/ Lookup(Inos, {NameA, NameB, NameC, DotDir}, NoFault)
    \/ Readdir(0..(MaxObjects + 2), Caps, OneFault(1))
    \/ SeriesStart
    \/ SeriesStep

SpecList == InitList /\ [][NextList]_vars

-----------------------------------------------------------------------------
(* SpecRoot: the namespace callbacks with the empty name among the names   *)
(* unlink and rmdir are called with.                                       *)

EmptyName == <<>>

NextRoot ==
    \/ Lookup(Inos, Names, NoFault)
    \/ Create(Inos, Names, {NonceA}, NoFault)
    \/ Mkdir(Inos, Names, {NonceA}, NoFault)
    \/ Unlink(Inos, Names \cup {EmptyName}, OneFault(1))
    \/ Rmdir(Inos, Names \cup {EmptyName}, OneFault(1))

SpecRoot == Init /\ [][NextRoot]_vars

-----------------------------------------------------------------------------
(* SpecPages: S3Storage::list followed request by request, on a bucket     *)
(* that does not change, for a backend that answers a page at a time.      *)

NoToken == [some |-> FALSE]

\* one answer of list_objects_v2 for a request whose matching keys are all,
\* in byte order: at most max_keys of them after the key the token stands
\* for, and a next token when more keys remain
ListPage(all, token, max_keys) ==
    LET start == IF token.some
                 THEN Cardinality({i \in 1..Len(all) : ~KeyLess(token.val, all[i])})
                 ELSE 0
        end == Min(start + max_keys, Len(all))
    IN  [contents |-> SubSeq(all, start + 1, end),
         next |-> IF end < Len(all) THEN [some |-> TRUE, val |-> all[end]] ELSE NoToken]

\* list up to the loop: the key prefix, no objects, no token (lines 129-134)
list_begin(self_prefix, prefix, page_size) ==
    [status |-> "loop", self_prefix |-> self_prefix, prefix |-> prefix,
     key_prefix |-> self_prefix \o TrimStartSlash(prefix), page_size |-> page_size,
     token |-> NoToken, objects |-> <<>>, requests |-> 0]

\* one iteration that returns Ok(objects) after its first page
list_iteration_OnePage(pg, output, fail) ==
    IF fail THEN [pg EXCEPT !.status = "err"]
    ELSE [pg EXCEPT !.objects = @ \o output.contents,
                    !.requests = @ + 1, !.status = "ok"]

\* one iteration of the loop (lines 136-169) on the answer output of its
\* request: a failed request ends list with Err, each key of the page is
\* pushed with the configured prefix removed, the next token is kept for the
\* next request, and the loop ends when the answer has none
list_iteration(pg, output, fail) ==
    IF fail THEN [pg EXCEPT !.status = "err"]
    ELSE LET relative_path(key) == IF StartsWith(key, pg.self_prefix)
                                   THEN DropFirst(key, Len(pg.self_prefix))
                                   ELSE key
         IN  [pg EXCEPT !.objects = @ \o [i \in 1..Len(output.contents) |->
                                              relative_path(output.contents[i])],
                        !.token = output.next,
                        !.requests = @ + 1,
                        !.status = IF output.next.some THEN "loop" ELSE "ok"]

PrefixP == <<"p", Slash>>
PrefixA == <<"a", Slash>>
\* the keys a bucket of SpecPages can hold
PageKeys ==
    { PrefixP \o NameA, PrefixP \o JoinSlash(NameA, NameB), PrefixP \o JoinSlash(NameA, NameC),
      PrefixP \o NameB, JoinSlash(NameA, NameB), NameA }
\* the pages of the backend hold 1 to MaxObjects + 1 keys
PageSizes == 1..(MaxObjects + 1)

InitPages == \E keys \in SUBSET PageKeys : Mounted([k \in keys |-> RawBody])

\* a caller starts list(prefix) on an adapter configured with self_prefix
ListCall ==
    /\ pager.status # "loop"
    /\ \E self_prefix \in {<<>>, PrefixP}, prefix \in {<<>>, PrefixA, <<Slash>> \o PrefixA},
          page_size \in PageSizes :
          pager' = list_begin(self_prefix, prefix, page_size)
    /\ UNCHANGED <<store, path_map, inode_map, next_ino, issued, series, race, conc>>

ListIteration ==
    /\ pager.status = "loop"
    /\ \E fail \in BOOLEAN :
          \E all \in {ListObjectsV2(store, pager.key_prefix)} :
             \E output \in {ListPage(all, pager.token, pager.page_size)} :
                \E pg \in {list_iteration(pager, output, fail)} : pager' = pg
    /\ UNCHANGED <<store, path_map, inode_map, next_ino, issued, series, race, conc>>

NextPages == ListCall \/ ListIteration

\* list runs inside rt.block_on: its loop goes on whenever the backend has
\* answered
SpecPages == InitPages /\ [][NextPages]_vars /\ WF_vars(ListIteration)

-----------------------------------------------------------------------------
(* SpecRace: two write callbacks on one bucket, each a get and then a put, *)
(* with nothing that orders the steps of one against the steps of the      *)
(* other.                                                                  *)

\* the plaintext of the object a when the two writers start
RaceBodies == {<<>>, <<1, 2>>}
RaceDatas == {<<1>>, <<2>>, <<2, 1>>}

InitRace == \E body \in RaceBodies : Mounted([k \in {NameA} |-> encrypt(body, NonceA)])

\* writer id runs write up to the end of its get
WriteGet(id) ==
    /\ race.w[id].pc = "idle"
    /\ \E ino \in Inos, offset \in Offsets, data \in RaceDatas, fail \in BOOLEAN :
          /\ offset + Len(data) <= MaxLen
          /\ \E g \in {write_get(FS, ino, fail)} :
                race' = IF g.ok
                        THEN [w |-> [race.w EXCEPT ![id] =
                                        [pc |-> "got", path |-> g.path, offset |-> offset,
                                         data |-> data, file_data |-> g.file_data]],
                              events |-> Append(race.events, <<"get", id>>)]
                        ELSE [race EXCEPT !.w[id] = [pc |-> "done", reply |-> g.reply]]
    /\ UNCHANGED <<store, path_map, inode_map, next_ino, issued, series, pager, conc>>

\* writer id patches the buffer it got, puts it and replies
WritePut(id) ==
    /\ race.w[id].pc = "got"
    /\ \E nonce \in Nonces, fail \in BOOLEAN :
          LET me == race.w[id]
          IN  \E r \in {write_put(FS, me.path, me.file_data, me.offset, me.data, nonce, fail)} :
                /\ store' = r.fs.store
                /\ race' = [w |-> [race.w EXCEPT ![id] =
                                        [pc |-> "done", reply |-> r.reply, path |-> me.path,
                                         offset |-> me.offset, data |-> me.data,
                                         file_data |-> me.file_data]],
                            events |-> IF r.reply.kind = "written"
                                       THEN Append(race.events, <<"put", id>>)
                                       ELSE race.events]
    /\ UNCHANGED <<path_map, inode_map, next_ino, issued, series, pager, conc>>

NextRace ==
    \/ Lookup({ROOT_INO}, {NameA}, NoFault)
    \/ \E id \in Writers : WriteGet(id)
    \/ \E id \in Writers : WritePut(id)

SpecRace == InitRace /\ [][NextRace]_vars

-----------------------------------------------------------------------------
(* SpecLocks: callbacks on two threads, followed lock by lock.  A callback *)
(* is the sequence of its mutex acquisitions and releases, its accesses to *)
(* the inode tables and its store requests, in the order of the source.    *)

Step(k, a) == [k |-> k, a |-> a]

\* get_path (lines 66-72): the root returns before any lock
get_path_steps(ino) ==
    IF ino = ROOT_INO THEN <<Step("local", "root_path")>>
    ELSE <<Step("lock", "inode_map"), Step("map", "get_path"), Step("unlock", "inode_map")>>

\* the removal that takes inode_map before path_map
forget_steps_InodeFirst ==
    <<Step("lock", "inode_map"), Step("lock", "path_map"), Step("map", "remove_path"),
      Step("branch", 1), Step("map", "remove_ino"),
      Step("unlock", "path_map"), Step("unlock", "inode_map")>>

\* "Remove from maps" of unlink and rmdir (lines 556-558, 675-677): the guard
\* of path_map lives to the end of the if let, the guard of inode_map to the
\* end of the statement inside it; with no mapping only path_map is taken
forget_steps ==
    <<Step("lock", "path_map"), Step("map", "remove_path"), Step("branch", 3),
      Step("lock", "inode_map"), Step("map", "remove_ino"), Step("unlock", "inode_map"),
      Step("unlock", "path_map")>>

\* get_or_create_ino (lines 50-64): three guards, dropped at the end of the
\* function in the reverse order of their declaration
get_or_create_ino_steps ==
    <<Step("lock", "path_map"), Step("lock", "inode_map"), Step("lock", "next_ino"),
      Step("map", "resolve"),
      Step("unlock", "next_ino"), Step("unlock", "inode_map"), Step("unlock", "path_map")>>

\* the parent inode of ".." read through a guard bound to a variable of
\* readdir
dotdot_steps_GuardKept ==
    <<Step("lock", "path_map"), Step("map", "read_parent")>>

\* the parent inode of ".." in readdir (line 269): a guard for one expression
dotdot_steps ==
    <<Step("lock", "path_map"), Step("map", "read_parent"), Step("unlock", "path_map")>>

\* a callback returns ENOENT when get_path found nothing; otherwise it
\* builds the path of the entry it is about
entry_steps(parent) ==
    get_path_steps(parent) \o <<Step("local", "match_path"), Step("local", "child_path")>>

Callbacks == {"lookup", "readdir", "create", "unlink", "rmdir"}
\* the callbacks that call get_or_create_ino
Assigning == {"lookup", "readdir", "create"}

CallbackSteps(cb, parent) ==
    CASE cb = "lookup" ->
           entry_steps(parent) \o <<Step("store", "exists")>> \o get_or_create_ino_steps
              \o <<Step("store", "get")>>
      [] cb = "readdir" ->
           get_path_steps(parent) \o <<Step("local", "match_path")>>
              \o (IF parent = ROOT_INO THEN <<>> ELSE dotdot_steps)
              \o <<Step("store", "list"), Step("local", "child_path")>>
              \o get_or_create_ino_steps
      [] cb = "create" ->
           entry_steps(parent) \o <<Step("store", "put")>> \o get_or_create_ino_steps
              \o <<Step("store", "get")>>
      [] cb = "unlink" ->
           entry_steps(parent) \o forget_steps \o <<Step("store", "delete")>>
      [] cb = "rmdir" ->
           entry_steps(parent) \o <<Step("store", "list"), Step("store", "delete"),
                                    Step("store", "delete")>> \o forget_steps

InThread(t) == conc.th[t]
Cur(t) == InThread(t).script[InThread(t).pc]
Running(t) == InThread(t).cb # "idle" /\ InThread(t).pc <= Len(InThread(t).script)
\* thread t goes on to its next step with the fields of its record changed
Advance(t, me, owner) ==
    conc' = [th |-> [conc.th EXCEPT ![t] = [me EXCEPT !.pc = @ + 1]], owner |-> owner]
Tables == <<path_map, inode_map, next_ino, issued>>
Others == <<store, series, pager, race>>

\* a callback is dispatched to thread t; the inode bound keeps room for the
\* inode each running callback may assign
Begin(t) ==
    /\ InThread(t).cb = "idle"
    /\ InThread(t).calls < MaxCalls
    /\ \E cb \in Callbacks, parent \in {ROOT_INO, 2} :
          /\ cb \in Assigning =>
                next_ino + Cardinality({u \in Threads : InThread(u).cb \in Assigning}) < MaxIno
          /\ conc' = [conc EXCEPT !.th[t] =
                     [IdleThread(InThread(t).calls + 1) EXCEPT
                        !.cb = cb, !.script = CallbackSteps(cb, parent), !.parent = parent]]
    /\ UNCHANGED <<Tables, Others>>

\* Mutex::lock: the thread waits until no thread holds the mutex
Acquire(t) ==
    /\ Running(t) /\ Cur(t).k = "lock"
    /\ conc.owner[Cur(t).a] = 0
    /\ Advance(t, [InThread(t) EXCEPT !.held = Append(@, Cur(t).a)],
               [conc.owner EXCEPT ![Cur(t).a] = t])
    /\ UNCHANGED <<Tables, Others>>

\* the guard is dropped
Release(t) ==
    /\ Running(t) /\ Cur(t).k = "unlock"
    /\ Advance(t, [InThread(t) EXCEPT !.held = SelectSeq(@, LAMBDA m : m # Cur(t).a)],
               [conc.owner EXCEPT ![Cur(t).a] = 0])
    /\ UNCHANGED <<Tables, Others>>

\* an access to the tables through the guards the thread holds
MapStep(t) ==
    /\ Running(t) /\ Cur(t).k = "map"
    /\ LET me == InThread(t)
           a == Cur(t).a
       IN  CASE a = "get_path" ->
                  /\ Advance(t, [me EXCEPT !.found = me.parent \in DOMAIN inode_map,
                                           !.path = IF me.parent \in DOMAIN inode_map
                                                    THEN inode_map[me.parent] ELSE <<>>],
                             conc.owner)
                  /\ UNCHANGED Tables
             [] a = "read_parent" ->
                  Advance(t, me, conc.owner) /\ UNCHANGED Tables
             [] a = "resolve" ->
                  \E g \in {get_or_create_ino(FS, me.path)} :
                     /\ Advance(t, [me EXCEPT !.ino = g.ino], conc.owner)
                     /\ path_map' = g.fs.path_map /\ inode_map' = g.fs.inode_map
                     /\ next_ino' = g.fs.next_ino /\ issued' = g.fs.issued
             [] a = "remove_path" ->
                  /\ Advance(t, [me EXCEPT !.found = me.path \in DOMAIN path_map,
                                           !.ino = IF me.path \in DOMAIN path_map
                                                   THEN path_map[me.path] ELSE 0],
                             conc.owner)
                  /\ path_map' = IF me.path \in DOMAIN path_map
                                 THEN MapRemove(path_map, me.path) ELSE path_map
                  /\ UNCHANGED <<inode_map, next_ino, issued>>
             [] a = "remove_ino" ->
                  /\ Advance(t, me, conc.owner)
                  /\ inode_map' = MapRemove(inode_map, me.ino)
                  /\ UNCHANGED <<path_map, next_ino, issued>>
    /\ UNCHANGED Others

\* a step on the callback's own variables: Step("branch", n) passes over the
\* next n steps when the last table access found nothing
LocalStep(t) ==
    /\ Running(t) /\ Cur(t).k \in {"local", "branch"}
    /\ LET me == InThread(t)
           a == Cur(t).a
       IN  IF Cur(t).k = "branch"
           THEN Advance(t, [me EXCEPT !.pc = IF me.found THEN @ ELSE @ + a], conc.owner)
           ELSE CASE a = "root_path" ->
                       Advance(t, [me EXCEPT !.found = TRUE, !.path = <<>>], conc.owner)
                  [] a = "match_path" ->
                       Advance(t, [me EXCEPT !.pc = IF me.found THEN @
                                                   ELSE Len(me.script)], conc.owner)
                  [] a = "child_path" ->
                       Advance(t, [me EXCEPT !.path = ChildPath(@, NameA)], conc.owner)
    /\ UNCHANGED <<Tables, Others>>

\* a request to the store, from its start to its answer
StoreStep(t) ==
    /\ Running(t) /\ Cur(t).k = "store"
    /\ Advance(t, InThread(t), conc.owner)
    /\ UNCHANGED <<Tables, Others>>

\* the callback has replied
Return(t) ==
    /\ InThread(t).cb # "idle" /\ InThread(t).pc > Len(InThread(t).script)
    /\ conc' = [conc EXCEPT !.th[t] = IdleThread(InThread(t).calls)]
    /\ UNCHANGED <<Tables, Others>>

ThreadStep(t) ==
    Acquire(t) \/ Release(t) \/ MapStep(t) \/ LocalStep(t) \/ StoreStep(t) \/ Return(t)

NextLocks ==
    \/ \E t \in Threads : Begin(t)
    \/ \E t \in Threads : Acquire(t)
    \/ \E t \in Threads : Release(t)
    \/ \E t \in Threads : MapStep(t)
    \/ \E t \in Threads : LocalStep(t)
    \/ \E t \in Threads : StoreStep(t)
    \/ \E t \in Threads : Return(t)

\* the mount with no inode assigned yet, or after a lookup of a
InitLocks ==
    \E fs \in {NewFs(EmptyMap), get_or_create_ino(NewFs(EmptyMap), NameA).fs} :
        /\ store = EmptyMap
        /\ path_map = fs.path_map /\ inode_map = fs.inode_map
        /\ next_ino = fs.next_ino /\ issued = fs.issued
        /\ series = NoSeries /\ pager = NoPager /\ race = NoRace /\ conc = NoConc

\* each thread is an OS thread: one that can take a step is scheduled
SpecLocks == InitLocks /\ [][NextLocks]_vars /\ \A t \in Threads : WF_vars(ThreadStep(t))

-----------------------------------------------------------------------------
(* Properties.  A property of a callback is stated of the callback applied  *)
(* to every reachable gateway state with every argument of the named sets. *)

\* the path of a known inode
PathOf(ino) == get_path(FS, ino).val

\* the plaintext of a stored body; [ok |-> FALSE] when it does not authenticate
PlainAt(bucket, key) == decrypt(bucket[key])

\* the keys of the bucket strictly below the directory prefix dp
KeysBelow(bucket, dp) == {k \in DOMAIN bucket : StartsWith(k, dp) /\ Len(k) > Len(dp)}

\* the text of s before its first '/'
FirstComponent(s) ==
    IF ContainsSlash(s)
    THEN SubSeq(s, 1, (CHOOSE k \in 1..Len(s) :
                          s[k] = Slash /\ \A j \in 1..(k - 1) : s[j] # Slash) - 1)
    ELSE s

\* the names n such that the bucket holds the key D/n or a key that begins D/n/
ImpliedChildren(bucket, D) ==
    LET dp == IF Len(D) = 0 THEN <<>> ELSE D \o <<Slash>>
    IN  {FirstComponent(DropFirst(k, Len(dp))) : k \in KeysBelow(bucket, dp)}

\* the entries of a readdir reply that are children (not "." or "..")
ChildEntries(entries) == {i \in 1..Len(entries) : entries[i].offset >= 2}

\* C1: in every reachable state path_map and inode_map are inverses of each
\* other: path_map maps p to i if and only if inode_map maps i to p
C1_MapsAreInverses ==
    /\ \A p \in DOMAIN path_map :
          path_map[p] \in DOMAIN inode_map /\ inode_map[path_map[p]] = p
    /\ \A i \in DOMAIN inode_map :
          inode_map[i] \in DOMAIN path_map /\ path_map[inode_map[i]] = i

\* a path was forgotten by unlink or rmdir and another one is mapped
C1_Witness ==
    /\ Len(issued) = 2
    /\ Cardinality(DOMAIN path_map) = 2
    /\ Cardinality(DOMAIN inode_map) = 2

\* the paths a callback can hand to get_or_create_ino in this state
CandidatePaths ==
    (DOMAIN path_map) \cup
    {ChildPath(PathOf(i), n) : i \in KnownInos, n \in Names}

\* C2: get_or_create_ino(p) returns the inode mapped to p when p is mapped, and
\* a repeated call returns the same inode; when p is not mapped it returns a
\* number >= 2 greater than every number issued before; the numbers issued
\* in the session are strictly increasing, so none is issued twice
C2_InodesStableAndNeverReused ==
    /\ \A p \in CandidatePaths :
          LET g == get_or_create_ino(FS, p)
              h == get_or_create_ino(g.fs, p)
          IN  /\ h.ino = g.ino
              /\ h.fs = g.fs
              /\ IF p \in DOMAIN path_map
                 THEN g.ino = path_map[p] /\ g.fs = FS
                 ELSE /\ g.ino >= 2
                      /\ \A k \in 1..Len(issued) : issued[k] < g.ino
                      /\ g.fs.issued = Append(issued, g.ino)
                      /\ g.fs.path_map[p] = g.ino
    /\ \A j, k \in 1..Len(issued) : j < k => issued[j] < issued[k]
    /\ \A k \in 1..Len(issued) : issued[k] >= 2

\* inode 2 was issued and forgotten, and a path holds the inode issued after it
C2_Witness ==
    /\ issued = <<2, 3>>
    /\ 2 \notin DOMAIN inode_map
    /\ 3 \in DOMAIN inode_map

\* C3: after create(p) succeeds and write(p, 0, d) succeeds, with nothing in
\* between, read(p, 0, len(d)) replies exactly d (no store request of the
\* read fails)
C3_CreateWriteRead ==
    \A parent \in Inos, name \in Names, d \in Datas, n2 \in Nonces, f1 \in {{}, {2}} :
        LET c == create(FS, parent, name, NonceA, f1)
        IN  c.reply.kind = "entry" =>
              LET ino == c.reply.attr.ino
                  w == write(c.fs, ino, 0, d, n2, {})
              IN  w.reply.kind = "written" =>
                    read(w.fs, ino, 0, Len(d), {}).reply = ReplyData(d)

\* a file was created and written through the gateway, and reading it back
\* gives the byte written
C3_Witness ==
    \E p \in DOMAIN path_map :
        /\ p \in DOMAIN store
        /\ path_map[p] # ROOT_INO
        /\ PlainAt(store, p) = [ok |-> TRUE, val |-> <<1>>]
        /\ read(FS, path_map[p], 0, 1, {}).reply = ReplyData(<<1>>)

\* C4: a successful write(ino, offset, data) on a non-root inode replaces the
\* stored plaintext old (empty when the object is missing) by new, where
\* len(new) = max(len(old), offset + len(data)), new holds data at
\* [offset, offset + len(data)), old's bytes at the other positions below
\* len(old) and zero at [len(old), offset); it acknowledges len(data) bytes
C4_WritePatches ==
    \A ino \in (DOMAIN inode_map) \ {ROOT_INO}, offset \in Offsets, data \in Datas,
       nonce \in Nonces, flt \in SUBSET (1..2) :
        LET w == write(FS, ino, offset, data, nonce, flt)
            key == inode_map[ino]
            old == IF key \in DOMAIN store THEN PlainAt(store, key).val ELSE <<>>
        IN  w.reply.kind = "written" =>
              /\ w.reply.size = Len(data)
              /\ key \in DOMAIN w.fs.store
              /\ PlainAt(w.fs.store, key).ok
              /\ LET new == PlainAt(w.fs.store, key).val
                 IN  /\ Len(new) = Max(Len(old), offset + Len(data))
                     /\ \A i \in 1..Len(new) :
                          new[i] = IF i > offset /\ i <= offset + Len(data)
                                   THEN data[i - offset]
                                   ELSE IF i <= Len(old) THEN old[i]
                                   ELSE 0

\* a write beyond the end of the file was stored: the file holds a zero-filled
\* hole before the byte written at offset 2
C4_Witness ==
    \E key \in DOMAIN store :
        /\ key \in DOMAIN path_map
        /\ PlainAt(store, key).ok
        /\ Len(PlainAt(store, key).val) = 3
        /\ PlainAt(store, key).val[2] = 0
        /\ PlainAt(store, key).val[3] # 0

\* C5: read(ino, offset, size) on a non-root inode whose object decrypts to t
\* replies the empty buffer when offset >= len(t) and otherwise exactly
\* t[offset .. min(offset + size, len(t))), for every offset and size
C5_ReadSlices ==
    \A ino \in (DOMAIN inode_map) \ {ROOT_INO}, offset \in 0..(MaxLen + 1), size \in Sizes :
        LET key == inode_map[ino]
        IN  (key \in DOMAIN store /\ PlainAt(store, key).ok) =>
              LET t == PlainAt(store, key).val
                  rep == read(FS, ino, offset, size, {}).reply
                  n == IF offset >= Len(t) THEN 0 ELSE Min(offset + size, Len(t)) - offset
              IN  /\ rep.kind = "data"
                  /\ Len(rep.data) = n
                  /\ \A i \in 1..n : rep.data[i] = t[offset + i]

\* a file of three bytes is stored, and a read of one byte at offset 1 replies
\* its middle byte alone
C5_Witness ==
    \E ino \in (DOMAIN inode_map) \ {ROOT_INO} :
        /\ inode_map[ino] \in DOMAIN store
        /\ PlainAt(store, inode_map[ino]).ok
        /\ Len(PlainAt(store, inode_map[ino]).val) = 3
        /\ PlainAt(store, inode_map[ino]).val[2] # PlainAt(store, inode_map[ino]).val[1]
        /\ read(FS, ino, 1, 1, {}).reply = ReplyData(<<PlainAt(store, inode_map[ino]).val[2]>>)

\* C6: readdir of a directory D (root included) emits, besides "." and "..",
\* one entry named n for every distinct immediate child name n such that the
\* bucket holds the key D/n or a key that begins with D/n/
C6_ReaddirListsImpliedChildren ==
    \A ino \in KnownInos :
        LET rep == readdir(FS, ino, 0, BigCap, {}).reply
            want == ImpliedChildren(store, PathOf(ino))
        IN  /\ rep.kind = "dir"
            /\ {rep.entries[i].name : i \in ChildEntries(rep.entries)} = want
            /\ Cardinality(ChildEntries(rep.entries)) = Cardinality(want)

\* C7: every child entry readdir emits, for the root as for a subdirectory,
\* carries the inode the inode table maps to the child's path after the call,
\* which is the inode lookup(parent, name) replies for that child
C7_ReaddirInoIsTableIno ==
    \A ino \in KnownInos, offset \in 0..(MaxObjects + 2), cap \in Caps :
        LET r == readdir(FS, ino, offset, cap, {})
        IN  r.reply.kind \in {"dir", "dropped"} =>
              \A i \in ChildEntries(r.reply.entries) :
                  LET e == r.reply.entries[i]
                      child == ChildPath(PathOf(ino), e.name)
                      lk == lookup(r.fs, ino, e.name, {}).reply
                  IN  /\ child \in DOMAIN r.fs.path_map
                      /\ e.ino = r.fs.path_map[child]
                      /\ lk.kind = "entry" /\ lk.attr.ino = e.ino

\* the names a complete listing of the series' directory holds
SeriesListing ==
    LET l == list_directory(FS, PathOf(series.ino), FALSE).val
    IN  {<<".">>, <<".", ".">>} \cup {l[i] : i \in 1..Len(l)}

\* C8: in a series of readdir calls on an unchanged directory, each passing
\* the offset of the last entry returned, no entry is emitted twice, and when
\* the series has ended with an empty reply, ".", ".." and each child were
\* emitted
C8_SeriesEmitsEachOnce ==
    series.active =>
        /\ \A i, j \in 1..Len(series.emitted) :
              i # j => series.emitted[i] # series.emitted[j]
        /\ series.status = "done" =>
              {series.emitted[i] : i \in 1..Len(series.emitted)} = SeriesListing

\* C9: lookup(parent, name) with a known parent and child path P, when no
\* store request fails, replies file attributes when the key P exists;
\* otherwise directory attributes when P/.dir exists or some key begins with
\* P/; otherwise ENOENT.  A success reply carries the inode the table maps to
\* P.  The names "." and ".." under the root are answered before the child
\* path is built (lines 142-148) and are not lookups of a child path
C9_LookupClassifies ==
    \A parent \in KnownInos, name \in Names \cup {NameC, DotDir, <<".">>} :
        LET P == ChildPath(PathOf(parent), name)
            r == lookup(FS, parent, name, {})
            isFile == P \in DOMAIN store
            isDir == \/ (P \o <<Slash>> \o DotDir) \in DOMAIN store
                     \/ \E k \in DOMAIN store : StartsWith(k, P \o <<Slash>>)
        IN  IF parent = ROOT_INO /\ name = <<".">> THEN TRUE
            ELSE IF isFile
            THEN /\ r.reply.kind = "entry"
                 /\ r.reply.attr.kind = "RegularFile"
                 /\ r.reply.attr.perm = "644" /\ r.reply.attr.nlink = 1
                 /\ P \in DOMAIN r.fs.path_map
                 /\ r.reply.attr.ino = r.fs.path_map[P]
            ELSE IF isDir
            THEN /\ r.reply.kind = "entry"
                 /\ r.reply.attr.kind = "Directory"
                 /\ r.reply.attr.perm = "755" /\ r.reply.attr.nlink = 2
                 /\ P \in DOMAIN r.fs.path_map
                 /\ r.reply.attr.ino = r.fs.path_map[P]
            ELSE /\ r.reply = ReplyError("ENOENT")
                 /\ r.fs = FS

\* one state holds the three cases: a is a file, b is a directory by its
\* marker alone, and a/a is absent; lookup has issued the inodes of a and b
C9_Witness ==
    /\ NameA \in DOMAIN store
    /\ DOMAIN store = {NameA, NameB \o <<Slash>> \o DotDir}
    /\ {NameA, NameB} \subseteq DOMAIN path_map
    /\ lookup(FS, ROOT_INO, NameA, {}).reply.attr.kind = "RegularFile"
    /\ lookup(FS, ROOT_INO, NameB, {}).reply.attr.kind = "Directory"
    /\ lookup(FS, path_map[NameA], NameA, {}).reply = ReplyError("ENOENT")

\* C10: when the bucket holds the key P and a key that begins with P/, lookup
\* of P and getattr of P's inode both reply kind = regular file
C10_FileAndPrefixIsFile ==
    \A parent \in KnownInos, name \in Names :
        LET P == ChildPath(PathOf(parent), name)
            lk == lookup(FS, parent, name, {})
        IN  (P \in DOMAIN store /\ \E k \in DOMAIN store : StartsWith(k, P \o <<Slash>>)) =>
              /\ lk.reply.kind = "entry"
              /\ lk.reply.attr.kind = "RegularFile"
              /\ LET ga == getattr(lk.fs, lk.reply.attr.ino, {}).reply
                 IN  ga.kind = "attr" /\ ga.attr.kind = lk.reply.attr.kind

\* C11: getattr on the inode of a regular file (its object decrypts, no key
\* lies below it) reports kind regular file, size = the length of the
\* plaintext the object decrypts to, and blocks = ceil(size / BLOCK_SIZE),
\* in every state reached by create and write calls on the file
C11_GetattrReportsPlainSize ==
    \A ino \in (DOMAIN inode_map) \ {ROOT_INO} :
        LET key == inode_map[ino]
        IN  (/\ key \in DOMAIN store
             /\ PlainAt(store, key).ok
             /\ KeysBelow(store, key \o <<Slash>>) = {}) =>
              LET t == PlainAt(store, key).val
                  rep == getattr(FS, ino, {}).reply
              IN  /\ rep.kind = "attr"
                  /\ rep.attr.kind = "RegularFile"
                  /\ rep.attr.ino = ino
                  /\ rep.attr.size = Len(t)
                  /\ rep.attr.blocks * BLOCK_SIZE >= Len(t)
                  /\ rep.attr.blocks * BLOCK_SIZE < Len(t) + BLOCK_SIZE

\* one byte was written at offset 2 of an empty file, and getattr reports
\* size 3 in one block
C11_Witness ==
    \E ino \in (DOMAIN inode_map) \ {ROOT_INO} :
        /\ inode_map[ino] \in DOMAIN store
        /\ PlainAt(store, inode_map[ino]).ok
        /\ PlainAt(store, inode_map[ino]).val \in {<<0, 0, 1>>, <<0, 0, 2>>}
        /\ getattr(FS, ino, {}).reply.attr.size = 3
        /\ getattr(FS, ino, {}).reply.attr.blocks = 1

\* C12: a successful create(parent, name) with child path P leaves at P an
\* object whose plaintext is empty, whatever the bucket held at P before,
\* maps P to the inode the reply carries, and changes no other key of the
\* bucket
C12_CreateTruncates ==
    \A parent \in Inos, name \in Names, nonce \in Nonces, flt \in SUBSET (1..2) :
        LET c == create(FS, parent, name, nonce, flt)
        IN  c.reply.kind = "entry" =>
              LET P == ChildPath(PathOf(parent), name)
              IN  /\ P \in DOMAIN c.fs.store
                  /\ PlainAt(c.fs.store, P) = [ok |-> TRUE, val |-> <<>>]
                  /\ P \in DOMAIN c.fs.path_map
                  /\ c.reply.attr.ino = c.fs.path_map[P]
                  /\ c.reply.attr.kind = "RegularFile"
                  /\ DOMAIN c.fs.store = DOMAIN store \cup {P}
                  /\ \A k \in DOMAIN store : k # P => c.fs.store[k] = store[k]

\* the bucket holds a file with one byte of content and another object, and
\* create on the file's path succeeds and leaves it empty
C12_Witness ==
    \E P \in DOMAIN path_map :
        /\ P \in DOMAIN store
        /\ PlainAt(store, P) = [ok |-> TRUE, val |-> <<1>>]
        /\ Cardinality(DOMAIN store) = 2
        /\ \E parent \in KnownInos, name \in Names :
              /\ ChildPath(PathOf(parent), name) = P
              /\ create(FS, parent, name, NonceA, {}).reply.kind = "entry"
              /\ create(FS, parent, name, NonceA, {}).reply.attr.size = 0

\* C13: a successful mkdir(parent, name) with child path P changes the bucket
\* in exactly one key: the marker P/.dir is added or overwritten, with empty
\* plaintext; every other key keeps its body; P is mapped to the inode the
\* reply carries, with directory attributes
C13_MkdirPutsOnlyMarker ==
    \A parent \in Inos, name \in Names, nonce \in Nonces, flt \in {{}, {1}} :
        LET m == mkdir(FS, parent, name, nonce, flt)
        IN  m.reply.kind = "entry" =>
              LET P == ChildPath(PathOf(parent), name)
                  marker == P \o <<Slash>> \o DotDir
              IN  /\ DOMAIN m.fs.store = DOMAIN store \cup {marker}
                  /\ PlainAt(m.fs.store, marker) = [ok |-> TRUE, val |-> <<>>]
                  /\ \A k \in DOMAIN store : k # marker => m.fs.store[k] = store[k]
                  /\ P \in DOMAIN m.fs.path_map
                  /\ m.reply.attr.ino = m.fs.path_map[P]
                  /\ m.reply.attr.kind = "Directory"
                  /\ m.reply.attr.perm = "755" /\ m.reply.attr.nlink = 2

\* mkdir a was called on a bucket that held the file b: the bucket gained
\* the one object a/.dir and a has an inode
C13_Witness ==
    /\ DOMAIN store = {NameB, NameA \o <<Slash>> \o DotDir}
    /\ NameA \in DOMAIN path_map
    /\ PlainAt(store, NameA \o <<Slash>> \o DotDir) = [ok |-> TRUE, val |-> <<>>]
    /\ mkdir(FS, ROOT_INO, NameA, NonceA, {}).reply.attr.ino = path_map[NameA]

\* C14: when every store request succeeds, rmdir(parent, name) with a known
\* parent and child path P replies ok, with no emptiness precheck; afterwards
\* no key that begins with P/ is left (the marker P/.dir and deeper keys
\* included), every key that does not begin with P/ keeps its body, and P is
\* in neither inode table
C14_RmdirDeletesSubtree ==
    \A parent \in KnownInos, name \in Names :
        LET P == ChildPath(PathOf(parent), name)
            r == rmdir(FS, parent, name, {})
            below == {k \in DOMAIN store : StartsWith(k, P \o <<Slash>>)}
        IN  /\ r.reply = ReplyOk
            /\ DOMAIN r.fs.store = (DOMAIN store) \ below
            /\ \A k \in DOMAIN r.fs.store : r.fs.store[k] = store[k]
            /\ P \notin DOMAIN r.fs.path_map
            /\ \A i \in DOMAIN r.fs.inode_map : r.fs.inode_map[i] # P
            /\ r.fs.path_map = [p \in (DOMAIN path_map) \ {P} |-> path_map[p]]

\* the directory a holds its marker and the deeper key a/a/.dir, a is mapped,
\* and rmdir of a leaves the bucket empty
C14_Witness ==
    /\ DOMAIN store = {NameA \o <<Slash>> \o DotDir,
                       NameA \o <<Slash>> \o NameA \o <<Slash>> \o DotDir}
    /\ NameA \in DOMAIN path_map
    /\ rmdir(FS, ROOT_INO, NameA, {}).reply = ReplyOk
    /\ DOMAIN rmdir(FS, ROOT_INO, NameA, {}).fs.store = {}

\* C15: whenever rmdir(parent, name) with child path P replies ok, also when
\* a delete request of the store failed, the bucket afterwards holds neither
\* P/.dir nor any key that begins with P/, and if no object has the key P a
\* lookup of P that follows immediately replies ENOENT
C15_RmdirOkMeansAbsent ==
    \A parent \in KnownInos, name \in Names, flt \in OneFault(MaxObjects + 2) :
        LET P == ChildPath(PathOf(parent), name)
            r == rmdir(FS, parent, name, flt)
        IN  r.reply = ReplyOk =>
              /\ \A k \in DOMAIN r.fs.store : ~StartsWith(k, P \o <<Slash>>)
              /\ P \notin DOMAIN r.fs.store =>
                    lookup(r.fs, parent, name, {}).reply = ReplyError("ENOENT")

\* the callbacks that take an inode reply ENOENT for ino in the state fs
UnknownIno(fs, ino) ==
    /\ getattr(fs, ino, {}).reply = ReplyError("ENOENT")
    /\ read(fs, ino, 0, 1, {}).reply = ReplyError("ENOENT")
    /\ write(fs, ino, 0, <<1>>, NonceA, {}).reply = ReplyError("ENOENT")

\* C16: unlink(parent, name) with a known parent and child path P, when its
\* delete request does not fail, replies ok whether or not the key P exists;
\* afterwards the bucket has no key P, P is in neither inode table, and
\* getattr, read and write on the inode P had reply ENOENT; a reference to P
\* that follows issues a new inode, and an inode that was issued and
\* forgotten stays unknown in every later state
C16_UnlinkForgets ==
    /\ \A parent \in KnownInos, name \in Names :
          LET P == ChildPath(PathOf(parent), name)
              u == unlink(FS, parent, name, {})
          IN  /\ u.reply = ReplyOk
              /\ P \notin DOMAIN u.fs.store
              /\ DOMAIN u.fs.store = (DOMAIN store) \ {P}
              /\ P \notin DOMAIN u.fs.path_map
              /\ \A i \in DOMAIN u.fs.inode_map : u.fs.inode_map[i] # P
              /\ P \in DOMAIN path_map =>
                    LET old == path_map[P]
                        c == create(u.fs, parent, name, NonceA, {})
                    IN  /\ old \notin DOMAIN u.fs.inode_map
                        /\ UnknownIno(u.fs, old)
                        /\ c.reply.kind = "entry"
                        /\ c.reply.attr.ino > old
    /\ \A k \in 1..Len(issued) :
          issued[k] \notin DOMAIN inode_map => UnknownIno(FS, issued[k])

\* inode 2 was given to a path and unlink forgot it: the path has no object,
\* inode 2 is unknown to getattr, and a later reference got inode 3
C16_Witness ==
    /\ issued = <<2, 3>>
    /\ 2 \notin DOMAIN inode_map
    /\ 3 \in DOMAIN inode_map
    /\ DOMAIN store = {inode_map[3]}
    /\ getattr(FS, 2, {}).reply = ReplyError("ENOENT")
    /\ \E name \in Names :
          /\ inode_map[3] = name
          /\ unlink(FS, ROOT_INO, name, {}).reply = ReplyOk

\* C17: in every state reachable by the callbacks, unlink and rmdir with any
\* parent and any name (the empty name included), path_map maps the empty
\* path to inode 1 and inode_map maps inode 1 to the empty path
C17_RootMappingImmutable ==
    /\ <<>> \in DOMAIN path_map
    /\ path_map[<<>>] = ROOT_INO
    /\ ROOT_INO \in DOMAIN inode_map
    /\ inode_map[ROOT_INO] = <<>>

\* C18: when the body stored at the path of a file fails authentication on
\* decryption, read, write and getattr on the file's inode and lookup of the
\* file reply EIO (not ENOENT, not a success reply with size 0), and the
\* callback leaves the bucket as it was
C18_AuthFailureIsEIO ==
    /\ \A ino \in (DOMAIN inode_map) \ {ROOT_INO} :
          LET key == inode_map[ino]
          IN  (key \in DOMAIN store /\ ~PlainAt(store, key).ok) =>
                /\ read(FS, ino, 0, 1, {}).reply = ReplyError("EIO")
                /\ write(FS, ino, 0, <<1>>, NonceA, {}).reply = ReplyError("EIO")
                /\ write(FS, ino, 0, <<1>>, NonceA, {}).fs.store = store
                /\ getattr(FS, ino, {}).reply = ReplyError("EIO")
    /\ \A parent \in KnownInos, name \in {NameA, NameB, NameC} :
          LET P == ChildPath(PathOf(parent), name)
              lk == lookup(FS, parent, name, {})
          IN  (P \in DOMAIN store /\ ~PlainAt(store, P).ok) =>
                lk.reply = ReplyError("EIO") /\ lk.fs.store = store

\* the reply is EIO whenever the failing store request, the i-th of the
\* callback, was issued
FailsWithEIO(r, i) == r.calls >= i => r.reply = ReplyError("EIO")

\* C19: when one store request issued by lookup, getattr, readdir, read,
\* write, create, unlink or mkdir fails with a transport or service error,
\* the callback replies EIO, not ENOENT and not a success reply
C19_StoreFailureIsEIO ==
    /\ \A parent \in KnownInos, name \in Names, i \in 1..2 :
          /\ FailsWithEIO(lookup(FS, parent, name, {i}), i)
          /\ FailsWithEIO(create(FS, parent, name, NonceA, {i}), i)
          /\ FailsWithEIO(unlink(FS, parent, name, {i}), i)
          /\ FailsWithEIO(mkdir(FS, parent, name, NonceA, {i}), i)
    /\ \A ino \in KnownInos, i \in 1..3 :
          /\ FailsWithEIO(getattr(FS, ino, {i}), i)
          /\ FailsWithEIO(readdir(FS, ino, 0, BigCap, {i}), i)
          /\ FailsWithEIO(read(FS, ino, 0, 1, {i}), i)
          /\ FailsWithEIO(write(FS, ino, 0, <<1>>, NonceA, {i}), i)

\* C20: lookup, create, unlink, mkdir and rmdir, called with a known parent
\* and a name that is not valid UTF-8, reply EINVAL and leave the inode
\* tables, the inode counter and the bucket unchanged
C20_NonUtf8IsEINVAL ==
    \A parent \in KnownInos :
        /\ lookup(FS, parent, NonUtf8Name, {}) = Ret(FS, ReplyError("EINVAL"), 0)
        /\ create(FS, parent, NonUtf8Name, NonceA, {}) = Ret(FS, ReplyError("EINVAL"), 0)
        /\ unlink(FS, parent, NonUtf8Name, {}) = Ret(FS, ReplyError("EINVAL"), 0)
        /\ mkdir(FS, parent, NonUtf8Name, NonceA, {}) = Ret(FS, ReplyError("EINVAL"), 0)
        /\ rmdir(FS, parent, NonUtf8Name, {}) = Ret(FS, ReplyError("EINVAL"), 0)

\* C21: when create, mkdir or write replies EIO (its get or its put failed),
\* the bucket holds the keys and bodies it held before the call, and both
\* inode tables and the inode counter are as before: no inode is assigned
\* for a path whose put failed
C21_FailedPutChangesNothing ==
    /\ \A parent \in Inos, name \in Names, nonce \in Nonces, flt \in SUBSET (1..2) :
          /\ LET c == create(FS, parent, name, nonce, flt)
             IN  c.reply = ReplyError("EIO") => c.fs = FS
          /\ LET m == mkdir(FS, parent, name, nonce, flt)
             IN  m.reply = ReplyError("EIO") => m.fs = FS
    /\ \A ino \in Inos, nonce \in Nonces, flt \in SUBSET (1..2) :
          LET w == write(FS, ino, 0, <<1>>, nonce, flt)
          IN  w.reply = ReplyError("EIO") => w.fs = FS

\* a file is known and the path b has no inode: a write on the file whose
\* put fails, a create of b and a mkdir of b whose put fails all reply EIO
C21_Witness ==
    /\ NameB \notin DOMAIN path_map
    /\ \E ino \in (DOMAIN inode_map) \ {ROOT_INO} :
          /\ inode_map[ino] \in DOMAIN store
          /\ write(FS, ino, 0, <<1>>, NonceA, {2}).reply = ReplyError("EIO")
    /\ create(FS, ROOT_INO, NameB, NonceA, {1}).reply = ReplyError("EIO")
    /\ mkdir(FS, ROOT_INO, NameB, NonceA, {1}).reply = ReplyError("EIO")

\* a nonce whose twelve bytes differ from one another
NonceMixed == [i \in 1..NONCE_LEN |-> (37 * i) % ByteMod]

\* the plaintexts write can hand to encrypt in this state, and the payloads
PlaintextsHere ==
    Datas \cup
    {PatchData(IF PlainAt(store, k).ok THEN PlainAt(store, k).val ELSE <<>>, offset, data) :
        k \in DOMAIN store, offset \in Offsets, data \in Datas}

\* C24: for every byte sequence p and the mount's key, decrypt(encrypt(p))
\* succeeds and returns p, whatever nonce encrypt draws
C24_DecryptInvertsEncrypt ==
    \A p \in PlaintextsHere, nonce \in Nonces \cup {NonceMixed, NonceOf(255)} :
        /\ decrypt(encrypt(p, nonce)) = [ok |-> TRUE, val |-> p]
        /\ Len(encrypt(p, nonce)) = NONCE_LEN + Len(p) + TAG_LEN

\* the bucket holds a body that encrypt made of a three-byte plaintext with
\* the nonce of ones, and it decrypts to that plaintext
C24_Witness ==
    \E k \in DOMAIN store :
        /\ Len(store[k]) = NONCE_LEN + 3 + TAG_LEN
        /\ SubSeq(store[k], 1, NONCE_LEN) = NonceOf(1)
        /\ decrypt(store[k]).ok
        /\ store[k] = encrypt(decrypt(store[k]).val, NonceOf(1))

\* C25: readdir on an inode whose path contains '/' emits ".." with the
\* inode the table maps to the parent path, never the root inode, in every
\* reachable state; for a path with no '/' it emits the root inode
C25_DotDotIsParentIno ==
    \A ino \in (DOMAIN inode_map) \ {ROOT_INO} :
        LET r == readdir(FS, ino, 0, BigCap, {})
            up == r.reply.entries[2]
            parent_path == RsplitParent(PathOf(ino))
        IN  r.reply.kind = "dir" =>
              /\ up.name = <<".", ".">>
              /\ IF ContainsSlash(PathOf(ino))
                 THEN /\ parent_path.val \in DOMAIN path_map
                      /\ up.ino = path_map[parent_path.val]
                      /\ up.ino # ROOT_INO
                 ELSE up.ino = ROOT_INO

\* C29: in every reachable state and for every directory P, after rmdir of P
\* replies ok, P's inode and every inode that was mapped to a path below P
\* are unknown (getattr, read and write reply ENOENT), and a write through
\* such an inode puts nothing below P
C29_RmdirForgetsSubtree ==
    \A parent \in Inos, name \in Names :
        LET r == rmdir(FS, parent, name, {})
            P == ChildPath(PathOf(parent), name)
            below == {i \in DOMAIN inode_map :
                        StartsWith(inode_map[i], Append(P, Slash))}
        IN  (parent \in DOMAIN inode_map /\ r.reply = ReplyOk) =>
              /\ P \in DOMAIN path_map => UnknownIno(r.fs, path_map[P])
              /\ \A i \in below :
                    /\ UnknownIno(r.fs, i)
                    /\ KeysBelow(write(r.fs, i, 0, <<1>>, NonceA, {}).fs.store,
                                 Append(P, Slash)) = {}

\* C30: lookup, getattr, readdir and read, with any arguments, any failing
\* store request and any outcome, leave the bucket with the keys and bodies
\* it held before; a lookup that replies ENOENT or EIO also leaves both inode
\* tables and the counter as they were
C30_ReadOnlyCallbacksKeepStore ==
    /\ \A parent \in Inos, name \in Names \cup {NonUtf8Name}, flt \in SUBSET (1..2) :
          LET r == lookup(FS, parent, name, flt)
          IN  /\ r.fs.store = store
              /\ r.reply \in {ReplyError("ENOENT"), ReplyError("EIO")} => r.fs = FS
    /\ \A ino \in Inos :
          /\ \A flt \in SUBSET (1..3) : getattr(FS, ino, flt).fs.store = store
          /\ \A offset \in 0..2, cap \in Caps, flt \in SUBSET {1} :
                readdir(FS, ino, offset, cap, flt).fs.store = store
          /\ \A offset \in Offsets, size \in Sizes, flt \in SUBSET {1} :
                read(FS, ino, offset, size, flt).fs.store = store

\* the bucket holds an object whose path has no inode, so that lookup assigns
\* one and readdir of the root assigns one, while a lookup of the other name
\* replies ENOENT
C30_Witness ==
    \E name \in Names, other \in Names :
        /\ name \in DOMAIN store /\ name \notin DOMAIN path_map
        /\ lookup(FS, ROOT_INO, name, {}).reply.kind = "entry"
        /\ lookup(FS, ROOT_INO, name, {}).fs.path_map # path_map
        /\ readdir(FS, ROOT_INO, 0, BigCap, {}).reply.kind = "dir"
        /\ lookup(FS, ROOT_INO, other, {}).reply = ReplyError("ENOENT")
        /\ read(FS, ROOT_INO, 0, 1, {}).reply.kind = "error"

\* the keys list must return for the call the pager follows: each key of the
\* bucket that begins with the configured prefix and the prefix, once, with
\* the configured prefix removed
PagerWant ==
    {DropFirst(k, Len(pager.self_prefix)) :
        k \in {key \in DOMAIN store :
                  StartsWith(key, pager.self_prefix \o TrimStartSlash(pager.prefix))}}

\* C23: list(prefix) ends for every bucket and every page size: a call in
\* its loop leads to a return; and a list that returned Ok returned each key
\* that begins with <configured prefix><prefix> exactly once, with the
\* configured prefix removed, after one request for each page
C23_ListEndsAndIsComplete ==
    /\ [](pager.status = "ok" =>
            /\ {pager.objects[i] : i \in 1..Len(pager.objects)} = PagerWant
            /\ Len(pager.objects) = Cardinality(PagerWant)
            /\ ~pager.token.some
            /\ (pager.requests - 1) * pager.page_size < Max(Len(pager.objects), 1)
            /\ pager.requests * pager.page_size >= Len(pager.objects))
    /\ ((pager.status = "loop") ~> (pager.status \in {"ok", "err"}))

\* list returned after three requests, each with the token of the one
\* before, the keys without the configured prefix, and the bucket holds
\* keys that do not match
C23_Witness ==
    /\ pager.status = "ok"
    /\ pager.requests >= 3
    /\ pager.self_prefix = PrefixP
    /\ Len(pager.objects) >= 3
    /\ Cardinality(DOMAIN store) > Len(pager.objects)

\* the writer whose put the bucket took last, and the writers whose put it took
LastPutter == race.events[Len(race.events)][2]
Putters == {race.events[i][2] : i \in {j \in 1..Len(race.events) : race.events[j][1] = "put"}}
\* both gets came before both puts
GetsBeforePuts ==
    /\ Len(race.events) = 4
    /\ race.events[1][1] = "get" /\ race.events[2][1] = "get"
    /\ race.events[3][1] = "put" /\ race.events[4][1] = "put"

\* C22: two writes on the same path whose get and put steps interleave
\* freely: whenever a put was applied, the stored plaintext is the buffer
\* the last putter got, patched with its own data alone; when both gets come
\* before both puts, both callbacks reply success and the final body is the
\* body from before both writes with only the last putter's patch
C22_LastWriterWins ==
    /\ (Putters # {} /\ race.events[Len(race.events)][1] = "put") =>
          LET me == race.w[LastPutter]
          IN  /\ me.pc = "done" /\ me.reply = ReplyWritten(Len(me.data))
              /\ PlainAt(store, me.path) =
                    [ok |-> TRUE, val |-> PatchData(me.file_data, me.offset, me.data)]
    /\ GetsBeforePuts =>
          LET me == race.w[LastPutter]
              other == race.w[CHOOSE id \in Writers : id # LastPutter]
          IN  /\ other.reply = ReplyWritten(Len(other.data))
              /\ me.reply = ReplyWritten(Len(me.data))
              /\ me.file_data = other.file_data
              /\ PlainAt(store, me.path).val = PatchData(other.file_data, me.offset, me.data)
    /\ \A ino \in Inos, fail \in BOOLEAN :
          LET g == write_get(FS, ino, fail)
              r == write(FS, ino, 1, <<2>>, NonceA, IF fail THEN {1} ELSE {})
          IN  IF g.ok
              THEN r = write_put(FS, g.path, g.file_data, 1, <<2>>, NonceA, FALSE)
              ELSE r.reply = g.reply /\ r.fs = FS

\* both gets came before both puts, both writers replied success, and the
\* byte the first putter wrote at offset 0 is not in the final body, which
\* holds the second putter's byte at offset 1 after the old first byte
C22_Witness ==
    /\ GetsBeforePuts
    /\ race.events[3][2] = 1 /\ race.events[4][2] = 2
    /\ race.w[1].reply = ReplyWritten(1) /\ race.w[2].reply = ReplyWritten(1)
    /\ race.w[1].offset = 0 /\ race.w[1].data = <<2>>
    /\ race.w[2].offset = 1 /\ race.w[2].data = <<1>>
    /\ race.w[1].file_data = <<1, 2>>
    /\ PlainAt(store, NameA).val = <<1, 1>>

\* the two inode tables are inverses of each other
MapsInverse ==
    /\ \A p \in DOMAIN path_map :
          path_map[p] \in DOMAIN inode_map /\ inode_map[path_map[p]] = p
    /\ \A i \in DOMAIN inode_map :
          inode_map[i] \in DOMAIN path_map /\ path_map[inode_map[i]] = i

\* C26: a thread that locks one of the tables while other threads run
\* get_or_create_ino or the removal of unlink and rmdir finds the two tables
\* inverses of each other: whenever the mutex of path_map or of inode_map is
\* free, so that get_path or a reader of path_map can take it, no inode is
\* still mapped to a path that path_map has dropped
C26_TablesAtomic ==
    (conc.owner["inode_map"] = 0 \/ conc.owner["path_map"] = 0) => MapsInverse

\* C27: a thread whose callback is about to issue a store request, or has
\* one in flight, holds none of the three mutexes
C27_NoLockAcrossStore ==
    \A t \in Threads :
        (Running(t) /\ Cur(t).k = "store") =>
            /\ InThread(t).held = <<>>
            /\ \A m \in Mutexes : conc.owner[m] # t

\* unlink on thread 1 has removed a mapping under both guards and is at its
\* delete request, while thread 2 holds the three guards of get_or_create_ino
C27_Witness ==
    /\ InThread(1).cb = "unlink" /\ Running(1)
    /\ Cur(1) = Step("store", "delete") /\ InThread(1).found /\ InThread(1).ino = 2
    /\ InThread(2).held = <<"path_map", "inode_map", "next_ino">>
    /\ InThread(2).cb = "readdir"

LockRank(m) ==
    CASE m = "path_map" -> 1
      [] m = "inode_map" -> 2
      [] m = "next_ino" -> 3
\* thread t is at a lock; it is past it when it holds every mutex it
\* requested in a row
AtLock(t) == Running(t) /\ Cur(t).k = "lock"
\* thread t is at the lock of mutex m
Wants(t, m) == Running(t) /\ Cur(t) = Step("lock", m)

\* C28: every thread takes the mutexes in the order path_map, inode_map,
\* next_ino: the mutex it requests comes after every mutex it holds; while a
\* callback runs some thread can take a step; and a thread that requests a
\* mutex gets it
C28_LockOrderNoDeadlock ==
    /\ [](\A t \in Threads, m \in Mutexes :
            Wants(t, m) =>
               \A i \in 1..Len(InThread(t).held) : LockRank(InThread(t).held[i]) < LockRank(m))
    /\ []((\E t \in Threads : Running(t)) =>
            \E t \in Threads :
               Running(t) /\ (Cur(t).k = "lock" => conc.owner[Cur(t).a] = 0))
    /\ \A t \in Threads : AtLock(t) ~> ~AtLock(t)

\* thread 1 requests path_map for a removal while thread 2 holds it with
\* inode_map and requests next_ino
C28_Witness ==
    /\ InThread(1).cb \in {"unlink", "rmdir"} /\ Wants(1, "path_map")
    /\ conc.owner["path_map"] = 2 /\ conc.owner["inode_map"] = 2
    /\ Wants(2, "next_ino")

====
